---- MODULE Spec2Model ----
(***************************************************************************)
(* Model of the Hermes trading core: the decision pipeline of              *)
(* backend/agent.py (TradingAgent.analyze_asset with its cache, the GPT    *)
(* response parser, the rule-based fallback scorer and AgentGuardrail) and *)
(* the backtest loop of backend/backtesting/engine.py (run_backtest).      *)
(*                                                                         *)
(* Numbers.  Prices, balances and confidences are integers.  The float     *)
(* value nan is the distinguished value NaN; every comparison of the code  *)
(* that may see it goes through PyLt / PyGt, which are false on NaN as in  *)
(* Python.  Optional values are sequences: <<>> is None, <<v>> is v.       *)
(* sentiment_score and volume_ratio are scaled by 10 (0.2 is 2, 1.5 is     *)
(* 15).  Time is in seconds.                                               *)
(***************************************************************************)
EXTENDS Integers, Sequences, FiniteSets, TLC

\* ------------------------------------------------------------------------
\* Python values
\* ------------------------------------------------------------------------

\* None, and an optional holding v
None == <<>>
Some(v) == <<v>>

\* float('nan'), as produced by float("nan") at agent.py:611
NaN == -1000

\* Python's x < y and x > y on floats: false as soon as one side is nan
PyLt(x, y) == x # NaN /\ y # NaN /\ x < y
PyGt(x, y) == x # NaN /\ y # NaN /\ x > y

\* Python's min(a, b) and max(a, b): the first argument is kept unless the
\* second compares strictly smaller (greater)
PyMin(a, b) == IF PyLt(b, a) THEN b ELSE a
PyMax(a, b) == IF PyGt(b, a) THEN b ELSE a

\* truth value of an Optional[float]: None and 0 are false
Truthy(o) == o # None /\ o[1] # 0

Abs(n) == IF n < 0 THEN -n ELSE n

\* ------------------------------------------------------------------------
\* Bounds of the model
\* ------------------------------------------------------------------------

\* the clock stops advancing at MaxNow
MaxNow == 450
\* number of analyze_asset calls in one behaviour
MaxCalls == 2
\* number of bars of a backtest series
MaxBars == 3
\* number of clear_cache requests in one behaviour
MaxClears == 1

\* ------------------------------------------------------------------------
\* Inputs
\* ------------------------------------------------------------------------

Symbols == {"AAPL", "XXX"}
Timeframes == {"1d"}

\* the clock advances in steps of TickStep seconds
TickStep == 150

\* one line of TradingPrediction.reasoning: a text, and for the line
\* f"guard_flags={guard_flags}" the flag list formatted into it
Note(t) == [text |-> t, flags |-> <<>>]
FlagsNote(f) == [text |-> "guard_flags=", flags |-> f]

\* MarketData: technical_indicators is sparse (a function on the names that
\* could be computed), volume_ratio is volume_profile['volume_ratio'] * 10
MkMarketData(sym, price, ind, vr) ==
    [symbol |-> sym, current_price |-> price, technical_indicators |-> ind,
     volume_ratio |-> vr]

IndBull == [k \in {"RSI", "EMA_12", "EMA_26", "MACD", "MACD_Signal", "ATR"} |->
              CASE k = "RSI" -> 25 [] k = "EMA_12" -> 105 [] k = "EMA_26" -> 100
                [] k = "MACD" -> 2 [] k = "MACD_Signal" -> 1 [] k = "ATR" -> 5]
IndNone == [k \in {} |-> 0]

\* the snapshots the market fetcher may return for a symbol
Snapshots(sym) ==
    { MkMarketData(sym, 100, IndBull, 18),
      MkMarketData(sym, 100, IndNone, 10) }

\* NewsData: sentiment_score * 10 and its label
MkNewsData(score, label) == [sentiment_score |-> score, sentiment_label |-> label]
NewsItems == { MkNewsData(0, "NEUTRAL"), MkNewsData(4, "POSITIVE") }

\* The decoded JSON object of a GPT response.  Every key is optional (<<>>
\* when the object has no such key; for the three prices also when it holds
\* null); confidence_ok is false when float() rejects the value of
\* "confidence"; reasoning is a pair <<type, lines>> with type "list" or
\* "str" (a JSON string instead of a list of strings).
MkData(sig, conf, confOk, reas, entry, stop, target) ==
    [signal |-> sig, confidence |-> conf, confidence_ok |-> confOk,
     reasoning |-> reas, entry_price |-> entry, stop_loss |-> stop,
     target_price |-> target, risk_level |-> None]

ListReasoning == Some(<<"list", <<Note("gpt")>> >>)
StrReasoning == Some(<<"str", <<Note("gpt")>> >>)

Payloads ==
    { MkData(Some("BUY"), Some(98), TRUE, ListReasoning, Some(100), Some(95), Some(110)),
      MkData(Some("SELL"), Some(80), TRUE, ListReasoning, Some(100), None, Some(90)),
      MkData(Some("HOLD"), Some(NaN), TRUE, StrReasoning, None, None, None),
      MkData(Some("BUY"), Some(98), TRUE, StrReasoning, Some(100), Some(95), Some(110)),
      MkData(Some("STRONG_BUY"), Some(80), TRUE, ListReasoning, Some(100), Some(95), None) }

\* A GPT response text, by what the parser looks at: find is
\* response_text.find('{'), rfind is response_text.rfind('}') (-1 when there
\* is none), decodable tells whether json.loads accepts the substring, data
\* is the decoded object.
MkText(f, r, dec, d) == [find |-> f, rfind |-> r, decodable |-> dec, data |-> d]
EmptyData == MkData(None, None, TRUE, None, None, None, None)

ResponseTexts ==
    { MkText(-1, -1, FALSE, EmptyData),
      MkText(0, 5, FALSE, EmptyData) }
    \cup { MkText(0, 5, TRUE, d) : d \in Payloads }

\* what awaiting _call_gpt yields: the response text, or an exception
GptOutcomes == { [raised |-> TRUE, text |-> MkText(-1, -1, FALSE, EmptyData)] }
               \cup { [raised |-> FALSE, text |-> t] : t \in ResponseTexts }

\* ------------------------------------------------------------------------
\* TradingPrediction and the pure functions of agent.py
\* ------------------------------------------------------------------------

SignalValues == {"BUY", "SELL", "HOLD"}

TradingPrediction(sym, sig, conf, rtype, reas, entry, stop, target, ts, tf, risk) ==
    [symbol |-> sym, signal |-> sig, confidence |-> conf,
     reasoning_type |-> rtype, reasoning |-> reas,
     entry_price |-> entry, stop_loss |-> stop, target_price |-> target,
     timestamp |-> ts, timeframe |-> tf, risk_level |-> risk]

\* str.upper() on the symbols of the model
Upper(s) == CASE s = "xxx" -> "XXX" [] s = "aapl" -> "AAPL" [] OTHER -> s

\* dict.get(key, default) on an optional entry
GetOr(o, default) == IF o = None THEN default ELSE o[1]

\* TradingAgent._get_cache_key
_get_cache_key(symbol, timeframe) == symbol \o "_" \o timeframe

\* the except branch of _parse_gpt_response
ParseErrorPrediction(symbol, timeframe, t) ==
    TradingPrediction(symbol, "HOLD", 50, "list",
                      <<Note("Unable to parse GPT response")>>,
                      None, None, None, t, timeframe, "HIGH")

\* does the try block of _parse_gpt_response run to its return statement
ParseSucceeds(text) ==
    LET json_start == text.find
        json_end == text.rfind + 1
    IN  /\ json_start # -1 /\ json_end > json_start
        /\ text.decodable
        /\ GetOr(text.data.signal, "HOLD") \in SignalValues
        /\ text.data.confidence_ok

\* TradingAgent._parse_gpt_response
_parse_gpt_response(text, symbol, timeframe, t) ==
    IF ParseSucceeds(text)
    THEN LET data == text.data
             reasoning == GetOr(data.reasoning,
                                <<"list", <<Note("GPT analysis completed")>> >>)
         IN  TradingPrediction(symbol,
                               GetOr(data.signal, "HOLD"),
                               PyMin(PyMax(GetOr(data.confidence, 50), 0), 100),
                               reasoning[1], reasoning[2],
                               data.entry_price, data.stop_loss, data.target_price,
                               t, timeframe, GetOr(data.risk_level, "MEDIUM"))
    ELSE ParseErrorPrediction(symbol, timeframe, t)

\* indicators.get(k) is truthy: the key is there and its value is not 0
IndTruthy(ind, k) == k \in DOMAIN ind /\ ind[k] # 0

RsiScore(ind) ==
    IF IndTruthy(ind, "RSI")
    THEN (IF ind["RSI"] < 30 THEN 2
          ELSE IF ind["RSI"] > 70 THEN -2
          ELSE IF ind["RSI"] < 50 THEN 1 ELSE -1)
    ELSE 0
RsiNote(ind) ==
    IF IndTruthy(ind, "RSI")
    THEN (IF ind["RSI"] < 30 THEN <<Note("RSI oversold")>>
          ELSE IF ind["RSI"] > 70 THEN <<Note("RSI overbought")>>
          ELSE IF ind["RSI"] < 50 THEN <<Note("RSI below midline")>>
          ELSE <<Note("RSI above midline")>>)
    ELSE <<>>

EmaScore(ind) ==
    IF IndTruthy(ind, "EMA_12") /\ IndTruthy(ind, "EMA_26")
    THEN (IF ind["EMA_12"] > ind["EMA_26"] THEN 1 ELSE -1)
    ELSE 0
EmaNote(ind) ==
    IF IndTruthy(ind, "EMA_12") /\ IndTruthy(ind, "EMA_26")
    THEN (IF ind["EMA_12"] > ind["EMA_26"]
          THEN <<Note("Short-term EMA above long-term EMA (bullish)")>>
          ELSE <<Note("Short-term EMA below long-term EMA (bearish)")>>)
    ELSE <<>>

MacdScore(ind) ==
    IF IndTruthy(ind, "MACD") /\ IndTruthy(ind, "MACD_Signal")
    THEN (IF ind["MACD"] > ind["MACD_Signal"] THEN 1 ELSE -1)
    ELSE 0
MacdNote(ind) ==
    IF IndTruthy(ind, "MACD") /\ IndTruthy(ind, "MACD_Signal")
    THEN (IF ind["MACD"] > ind["MACD_Signal"]
          THEN <<Note("MACD above signal line (bullish)")>>
          ELSE <<Note("MACD below signal line (bearish)")>>)
    ELSE <<>>

NewsScore(news) ==
    IF news.sentiment_score > 2 THEN 1
    ELSE IF news.sentiment_score < -2 THEN -1 ELSE 0
NewsNote(news) ==
    IF news.sentiment_score > 2 THEN <<Note("Positive news sentiment")>>
    ELSE IF news.sentiment_score < -2 THEN <<Note("Negative news sentiment")>>
    ELSE <<>>

VolumeNote(md) ==
    IF md.volume_ratio > 15 THEN <<Note("High volume")>>
    ELSE IF md.volume_ratio < 5 THEN <<Note("Low volume")>>
    ELSE <<>>

\* the score of the fallback scorer
FallbackScore(md, news) ==
    RsiScore(md.technical_indicators) + EmaScore(md.technical_indicators)
    + MacdScore(md.technical_indicators) + NewsScore(news)

\* the thresholds are strict
FallbackSignalStrict(score) ==
    IF score > 3 THEN "BUY" ELSE IF score < -3 THEN "SELL" ELSE "HOLD"

\* if score >= 3: BUY; elif score <= -3: SELL; else: HOLD
FallbackSignal(score) ==
    IF score >= 3 THEN "BUY" ELSE IF score <= -3 THEN "SELL" ELSE "HOLD"

FallbackConfidence(score) ==
    IF score >= 3 THEN PyMin(70 + score * 5, 95)
    ELSE IF score <= -3 THEN PyMin(70 + Abs(score) * 5, 95)
    ELSE 50

\* a missing ATR counts as 0
FallbackAtrOrZero(md) ==
    IF "ATR" \in DOMAIN md.technical_indicators
    THEN md.technical_indicators["ATR"]
    ELSE 0

\* indicators.get('ATR', current_price * 0.02); the prices of the model are
\* multiples of 50, so that the division is exact
FallbackAtr(md) ==
    IF "ATR" \in DOMAIN md.technical_indicators
    THEN md.technical_indicators["ATR"]
    ELSE (md.current_price * 2) \div 100

\* TradingAgent._generate_fallback_prediction
_generate_fallback_prediction(md, news, timeframe, t) ==
    LET ind == md.technical_indicators
        current_price == md.current_price
        score == FallbackScore(md, news)
        signal == FallbackSignal(score)
        atr == FallbackAtr(md)
        reasoning == RsiNote(ind) \o EmaNote(ind) \o MacdNote(ind) \o NewsNote(news)
                     \o VolumeNote(md)
                     \o <<Note("Analysis based on technical indicators (GPT unavailable)")>>
    IN  TradingPrediction(md.symbol, signal, FallbackConfidence(score),
            "list", reasoning,
            Some(current_price),
            IF signal = "BUY" THEN Some(current_price - atr * 2)
            ELSE IF signal = "SELL" THEN Some(current_price + atr * 2) ELSE None,
            IF signal = "BUY" THEN Some(current_price + atr * 3)
            ELSE IF signal = "SELL" THEN Some(current_price - atr * 3) ELSE None,
            t, timeframe, "MEDIUM")

\* ------------------------------------------------------------------------
\* AgentGuardrail
\* ------------------------------------------------------------------------

\* AgentGuardrail.__init__: the symbols of the banned list upper-cased
AgentGuardrail(max_confidence, banned_symbols) ==
    [max_confidence |-> max_confidence,
     banned_symbols |-> { Upper(b) : b \in banned_symbols }]

\* prediction.reasoning.insert(0, note); a reasoning that is not a list has
\* no insert and the statement raises AttributeError
CanInsert(p) == p.reasoning_type = "list"

\* the note is put behind the existing lines
InsertLast(p, note) == [p EXCEPT !.reasoning = @ \o <<note>>]

Insert0(p, note) == [p EXCEPT !.reasoning = <<note>> \o @]

\* the condition of the risk-per-share rule of enforce
ExcessiveRisk(p, market_data) ==
    /\ market_data # None
    /\ market_data[1].current_price # 0
    /\ Truthy(p.stop_loss)
    /\ Truthy(p.entry_price)
    /\ market_data[1].current_price > 0
    /\ 2 * Abs(p.entry_price[1] - p.stop_loss[1]) > market_data[1].current_price

\* the condition of the rule for BUY/SELL without entry or stop-loss
MissingEntryOrStop(p) ==
    /\ p.signal \in {"BUY", "SELL"}
    /\ (p.entry_price = None \/ p.stop_loss = None)

\* The outcome of enforce: the prediction object as the call leaves it, the
\* flags raised so far, and whether the call ended by an exception (an
\* insert on a reasoning that is not a list; inside the risk rule the
\* exception is caught and the rule's insert is skipped).
GuardResult(p, f, r) == [prediction |-> p, flags |-> f, raised |-> r]

\* the confidence cap, last rule of enforce
EnforceCap(guard, p, flags) ==
    IF PyGt(p.confidence, guard.max_confidence)
    THEN LET capped == [p EXCEPT !.confidence = guard.max_confidence]
             f == Append(flags, "confidence_capped")
         IN  IF CanInsert(capped)
             THEN GuardResult(Insert0(capped, Note("Guardrail: confidence capped")), f, FALSE)
             ELSE GuardResult(capped, f, TRUE)
    ELSE GuardResult(p, flags, FALSE)

\* the risk-per-share rule, then the cap
EnforceRisk(guard, p, market_data, flags) ==
    IF ExcessiveRisk(p, market_data)
    THEN LET reduced == [p EXCEPT !.confidence = PyMin(p.confidence, 40)]
             noted == IF CanInsert(reduced)
                      THEN Insert0(reduced, Note("Guardrail: excessive per-share risk detected; confidence reduced"))
                      ELSE reduced
         IN  EnforceCap(guard, noted, Append(flags, "excessive_risk_fraction"))
    ELSE EnforceCap(guard, p, flags)

\* the rule for BUY/SELL without entry or stop-loss, then the later rules
EnforceMissing(guard, p, market_data) ==
    IF MissingEntryOrStop(p)
    THEN LET held == [p EXCEPT !.signal = "HOLD",
                               !.confidence = PyMin(p.confidence, 50)]
         IN  IF CanInsert(held)
             THEN EnforceRisk(guard,
                      Insert0(held, Note("Guardrail: missing entry or stop-loss -> switched to HOLD")),
                      market_data, <<"missing_entry_or_stop">>)
             ELSE GuardResult(held, <<"missing_entry_or_stop">>, TRUE)
    ELSE EnforceRisk(guard, p, market_data, <<>>)

\* the symbol enforce checks against the banned set
GuardSymbol(p, market_data) ==
    IF market_data # None /\ market_data[1].symbol # ""
    THEN market_data[1].symbol ELSE p.symbol

\* AgentGuardrail.enforce
enforce(guard, prediction, market_data) ==
    LET symbol == GuardSymbol(prediction, market_data)
    IN  IF symbol # "" /\ Upper(symbol) \in guard.banned_symbols
        THEN LET held == [prediction EXCEPT !.signal = "HOLD", !.confidence = 0]
             IN  IF CanInsert(held)
                 THEN GuardResult(Insert0(held, Note("Guardrail: trading is banned for this symbol")),
                                  <<"banned_symbol">>, FALSE)
                 ELSE GuardResult(held, <<"banned_symbol">>, TRUE)
        ELSE EnforceMissing(guard, prediction, market_data)

\* a guardrail configured with a cap ten below the 40 of the risk rule, the
\* lowest ceiling of the other rules
LowMaxConfidence == 40 - 10

\* the guardrail analyze_asset constructs: AgentGuardrail() with the
\* defaults max_confidence=95.0 and banned_symbols=None
DefaultMaxConfidence == 95
DefaultGuard == AgentGuardrail(DefaultMaxConfidence, {})

\* the guardrail step of analyze_asset: enforce inside try/except, and the
\* guard_flags line appended to the reasoning when flags were raised and
\* nothing raised
GuardStep(prediction, market_data) ==
    LET res == enforce(DefaultGuard, prediction, market_data)
    IN  IF ~res.raised /\ res.flags # <<>> /\ CanInsert(res.prediction)
        THEN [res.prediction EXCEPT !.reasoning = Append(@, FlagsNote(res.flags))]
        ELSE res.prediction

\* ------------------------------------------------------------------------
\* TradingAgent: the cache and analyze_asset
\* ------------------------------------------------------------------------

VARIABLES
    openai_api_key,  \* TradingAgent.openai_api_key is set (an oracle is configured)
    cache,           \* TradingAgent.cache: cache key -> [prediction, timestamp]
    now,             \* time.time()
    calls,           \* analyze_asset calls started so far
    pc,              \* where the running analyze_asset call stands
    symbol,          \* its arguments
    timeframe,
    market_data,     \* its locals: the results of asyncio.gather ...
    news_data,
    gpt_outcome,     \* ... what awaiting _call_gpt yielded ...
    candidate,       \* ... the prediction handed to the guardrail ...
    guard_flags,     \* ... the flags enforce raised ...
    result,          \* ... and the prediction it returns
    trace,           \* what the running call did (history of the call)
    prev,            \* the previous completed call: its key, result and trace
    clear_log        \* the clear_cache calls so far: what each removed and returned

agentVars == <<openai_api_key, cache, now, calls, pc, symbol, timeframe,
               market_data, news_data, gpt_outcome, candidate, guard_flags,
               result, trace, prev, clear_log>>

\* the state of one run_backtest call
VARIABLES
    bt_pc,                  \* "idle", "loop", "done" (returned) or "error" (raised)
    df,                     \* the Close column of the downloaded bars, by ascending date
    bar,                    \* number of bars the loop has processed
    balance,
    position_open,
    position_entry_price,
    position_quantity,
    position_entry_date,    \* Optional: index of the bar of the entry
    trades,                 \* List[TradeRecord]
    equity_curve,           \* List of (date, portfolio_value)
    final_balance,          \* Optional: set once the loop and the force-close are over
    saved,                  \* the backtests row and its trades rows are committed
    exported,               \* the trades CSV is written
    bt_result,              \* Optional: the dict run_backtest returned
    bt_raised,              \* Optional: the exception run_backtest raised
    bt_log                  \* per processed bar: what the loop body did (history)

btVars == <<bt_pc, df, bar, balance, position_open, position_entry_price,
            position_quantity, position_entry_date, trades, equity_curve,
            final_balance, saved, exported, bt_result, bt_raised, bt_log>>

\* one AgentGuardrail.enforce call on its own
VARIABLES
    g_pc,            \* "input" before the call, "enforced" after it
    g_guard,         \* the AgentGuardrail object
    g_prediction,    \* the prediction argument, as passed
    g_market_data,   \* the market_data argument (Optional)
    g_result,        \* Optional: what the call left (prediction, flags, raised)
    g_again          \* Optional: what a second call, on the returned prediction, left

guardVars == <<g_pc, g_guard, g_prediction, g_market_data, g_result, g_again>>

\* one _generate_fallback_prediction call on its own
VARIABLES
    f_pc,            \* "input" before the call, "scored" after it
    f_market_data,   \* the market_data argument
    f_news_data,     \* the news_data argument
    f_prediction     \* Optional: the prediction the call returned

scoreVars == <<f_pc, f_market_data, f_news_data, f_prediction>>

\* analyze_asset calls of several callers in flight at once on one
\* TradingAgent (coroutines of one event loop)
VARIABLES
    co_pc,           \* per caller: "idle", or the await its call is suspended at
    co_locals,       \* per caller: market_data, news_data and prediction of its call
    co_result,       \* per caller: Optional, what its last call returned
    co_trace,        \* per caller: what its last call did (history of the call)
    co_writes        \* the cache writes so far, in order (history)

coVars == <<co_pc, co_locals, co_result, co_trace, co_writes>>

\* the NewsAnalyzer of the agent and the news request of the running call
VARIABLES
    news_api_key,        \* NewsAnalyzer.news_api_key is set
    sentiment_analyzer,  \* NewsAnalyzer.sentiment_analyzer: "absent" (None) or how
                         \* the pipeline answers
    news_fetch           \* Optional: the response fetch_news of a call met (history)

newsVars == <<news_api_key, sentiment_analyzer, news_fetch>>

vars == <<agentVars, btVars, guardVars, scoreVars, coVars, newsVars>>

\* TradingAgent.cache_ttl
cache_ttl == 300

\* TradingAgent._is_cache_valid
_is_cache_valid(c, cache_key, t) ==
    IF cache_key \notin DOMAIN c THEN FALSE
    ELSE t - c[cache_key].timestamp < cache_ttl

\* the prediction is replaced and the timestamp of an existing entry is kept
CachePutMixed(c, cache_key, prediction, t) ==
    [k \in DOMAIN c \cup {cache_key} |->
        IF k = cache_key
        THEN [prediction |-> prediction,
              timestamp |-> IF cache_key \in DOMAIN c THEN c[cache_key].timestamp ELSE t]
        ELSE c[k]]

\* self.cache[cache_key] = {'prediction': ..., 'timestamp': time.time()}
CachePut(c, cache_key, prediction, t) ==
    [k \in DOMAIN c \cup {cache_key} |->
        IF k = cache_key THEN [prediction |-> prediction, timestamp |-> t]
        ELSE c[k]]

\* the prediction of the outer except branch of analyze_asset
SafePrediction(sym, tf, t) ==
    TradingPrediction(sym, "HOLD", 30, "list",
                      <<Note("Analysis failed: Unable to fetch market data")>>,
                      None, None, None, t, tf, "HIGH")

\* the outer except branch re-raises instead of returning a prediction
OuterExceptReraises(sym, tf, t) == None

\* what the outer try/except of analyze_asset hands to the caller when the
\* body raised: the safe prediction (None would be an exception surfacing)
OuterExcept(sym, tf, t) == Some(SafePrediction(sym, tf, t))

NoTrace == [hit |-> FALSE, fetches |-> 0, gpt_calls |-> 0, fallback |-> FALSE,
            guarded |-> FALSE, wrote |-> FALSE, started |-> 0, forced |-> FALSE,
            endpoint |-> "", cached |-> FALSE]

\* the cached field a router endpoint puts in its response: predict_trade
\* evaluates _is_cache_valid before it awaits analyze_asset (before holds
\* that value), analyze_with_semaphore of batch_predict evaluates it after
\* analyze_asset has returned, on the cache c at time t; a direct
\* analyze_asset call has no response (before is FALSE)
RouterCached(endpoint, before, c, cache_key, t) ==
    IF endpoint = "analyze_with_semaphore"
    THEN _is_cache_valid(c, cache_key, t)
    ELSE before

AgentStart ==
    /\ cache = [k \in {} |-> 0]
    /\ now = 0
    /\ calls = 0
    /\ pc = "idle"
    /\ symbol = ""
    /\ timeframe = ""
    /\ market_data = None
    /\ news_data = None
    /\ gpt_outcome = None
    /\ candidate = None
    /\ guard_flags = <<>>
    /\ result = None
    /\ trace = NoTrace
    /\ prev = None
    /\ clear_log = <<>>

\* TradingAgent.__init__: the API key comes from the environment
AgentInit ==
    /\ openai_api_key \in BOOLEAN
    /\ AgentStart

\* time passes
Tick ==
    /\ now + TickStep <= MaxNow
    /\ now' = now + TickStep
    /\ UNCHANGED <<openai_api_key, cache, calls, pc, symbol, timeframe,
                   market_data, news_data, gpt_outcome, candidate, guard_flags,
                   result, trace, prev, clear_log, btVars, guardVars, scoreVars, coVars, newsVars>>

\* analyze_asset up to its first await, on the cache c: the cache check; a
\* valid entry is returned, otherwise the two fetches are started (forced
\* tells that the caller asked for a refresh)
AnalyzeVia(c, sym, tf, forced, endpoint) ==
    /\ pc = "idle"
    /\ calls < MaxCalls
    /\ calls' = calls + 1
    /\ symbol' = sym
    /\ timeframe' = tf
    /\ cache' = c
    /\ LET cache_key == _get_cache_key(sym, tf)
           before == endpoint = "predict_trade" /\ _is_cache_valid(c, cache_key, now)
       IN  IF _is_cache_valid(c, cache_key, now)
           THEN /\ result' = Some(c[cache_key].prediction)
                /\ trace' = [NoTrace EXCEPT !.hit = TRUE, !.started = now,
                                            !.forced = forced,
                                            !.endpoint = endpoint,
                                            !.cached = RouterCached(endpoint, before,
                                                           c, cache_key, now)]
                /\ pc' = "return"
           ELSE /\ result' = None
                /\ trace' = [NoTrace EXCEPT !.fetches = 1, !.started = now,
                                            !.forced = forced,
                                            !.endpoint = endpoint,
                                            !.cached = before]
                /\ pc' = "gather"
    /\ UNCHANGED <<openai_api_key, now, market_data, news_data,
                   gpt_outcome, candidate, guard_flags, prev, clear_log, btVars, guardVars, scoreVars, coVars, newsVars>>

\* analyze_asset called by a caller that is not a router endpoint
AnalyzeFrom(c, sym, tf, forced) == AnalyzeVia(c, sym, tf, forced, "analyze_asset")

\* a direct analyze_asset call
Analyze(sym, tf) == AnalyzeFrom(cache, sym, tf, FALSE)

\* the entry of the key is kept
CacheDeleteNothing(c, cache_key) == c

\* if cache_key in trading_agent.cache: del trading_agent.cache[cache_key]
CacheDelete(c, cache_key) == [k \in DOMAIN c \ {cache_key} |-> c[k]]

\* the /predict endpoint up to the first await of analyze_asset: with
\* force_refresh the entry of the key is deleted before the call
predict_trade(sym, tf, force_refresh) ==
    AnalyzeVia(IF force_refresh THEN CacheDelete(cache, _get_cache_key(sym, tf))
               ELSE cache,
               sym, tf, force_refresh, "predict_trade")

\* one task of the /batch-predict endpoint up to the first await of
\* analyze_asset; its cached field is evaluated when analyze_asset returns
analyze_with_semaphore(sym, tf) ==
    AnalyzeVia(cache, sym, tf, FALSE, "analyze_with_semaphore")

\* from the candidate of the GPT attempt (None when there is none) to the
\* return statement: fallback, guardrail, cache write
Finish(md, news, attempt) ==
    LET prediction == IF attempt = None
                      THEN _generate_fallback_prediction(md, news, timeframe, now)
                      ELSE attempt[1]
        final == GuardStep(prediction, Some(md))
    IN  /\ candidate' = Some(prediction)
        /\ guard_flags' = enforce(DefaultGuard, prediction, Some(md)).flags
        /\ cache' = CachePut(cache, _get_cache_key(symbol, timeframe), final, now)
        /\ result' = Some(final)
        /\ trace' = [trace EXCEPT !.fallback = (attempt = None),
                                  !.guarded = TRUE, !.wrote = TRUE,
                                  !.cached = RouterCached(trace.endpoint, @,
                                      CachePut(cache, _get_cache_key(symbol, timeframe),
                                               final, now),
                                      _get_cache_key(symbol, timeframe), now)]
        /\ pc' = "return"

\* the GPT call is attempted whether or not there is an API key
GptConfiguredAlways(key) == TRUE

\* if self.openai_api_key: the GPT call is attempted only with an API key
GptConfigured(key) == key

\* asyncio.gather returns: without market data the call ends in the outer
\* except branch; with an API key the GPT call is awaited; without one the
\* fallback runs at once
GatherDone(md, news) ==
    /\ pc = "gather"
    /\ market_data' = md
    /\ news_data' = Some(news)
    /\ IF md = None
       THEN /\ result' = OuterExcept(symbol, timeframe, now)
            /\ pc' = "return"
            /\ trace' = [trace EXCEPT !.cached =
                             RouterCached(trace.endpoint, @, cache,
                                          _get_cache_key(symbol, timeframe), now)]
            /\ UNCHANGED <<cache, candidate, guard_flags>>
       ELSE IF GptConfigured(openai_api_key)
       THEN /\ pc' = "gpt"
            /\ trace' = [trace EXCEPT !.gpt_calls = @ + 1]
            /\ UNCHANGED <<cache, candidate, guard_flags, result>>
       ELSE Finish(md[1], news, None)
    /\ UNCHANGED <<openai_api_key, now, calls, symbol, timeframe, gpt_outcome,
                   prev, clear_log, btVars, guardVars, scoreVars, coVars, newsVars>>

\* the await of _call_gpt returns or raises; a returned text is parsed, and
\* a raised exception leaves prediction = None
GptDone(out) ==
    /\ pc = "gpt"
    /\ gpt_outcome' = Some(out)
    /\ Finish(market_data[1], news_data[1],
              IF out.raised THEN None
              ELSE Some(_parse_gpt_response(out.text, symbol, timeframe, now)))
    /\ UNCHANGED <<openai_api_key, now, calls, symbol, timeframe,
                   market_data, news_data, prev, clear_log, btVars, guardVars, scoreVars, coVars, newsVars>>

\* the caller receives the prediction
Return ==
    /\ pc = "return"
    /\ pc' = "idle"
    /\ prev' = Some([key |-> _get_cache_key(symbol, timeframe),
                     result |-> result, trace |-> trace, ended |-> now])
    /\ symbol' = ""
    /\ timeframe' = ""
    /\ market_data' = None
    /\ news_data' = None
    /\ gpt_outcome' = None
    /\ candidate' = None
    /\ guard_flags' = <<>>
    /\ result' = None
    /\ trace' = NoTrace
    /\ UNCHANGED <<openai_api_key, cache, now, calls, clear_log, btVars, guardVars,
                   scoreVars, coVars, newsVars>>

\* the cache is left as it is
CacheClearNothing(c) == c

\* trading_agent.cache.clear()
CacheClear(c) == [k \in {} |-> 0]

\* the DELETE /cache endpoint: it runs without an await, also while an
\* analyze_asset call is suspended; entries_removed is len(cache) taken
\* before the clear
clear_cache ==
    /\ Len(clear_log) < MaxClears
    /\ cache' = CacheClear(cache)
    /\ clear_log' = Append(clear_log,
                           [entries_removed |-> Cardinality(DOMAIN cache),
                            removed |-> cache, at |-> now, calls |-> calls])
    /\ UNCHANGED <<openai_api_key, now, calls, pc, symbol, timeframe, market_data,
                   news_data, gpt_outcome, candidate, guard_flags, result, trace,
                   prev, btVars, guardVars, scoreVars, coVars, newsVars>>

\* ------------------------------------------------------------------------
\* run_backtest
\* ------------------------------------------------------------------------

\* initial_balance = 10_000.0
initial_balance == 10000

\* Close prices of the bars
BarPrices == {50, 100, 400}

\* the bar series yf.download may return, the empty one included
RECURSIVE SeriesOfLen(_)
SeriesOfLen(n) ==
    IF n = 0 THEN { <<>> }
    ELSE { Append(q, c) : q \in SeriesOfLen(n - 1), c \in BarPrices }
BarSeries == UNION { SeriesOfLen(n) : n \in 0..MaxBars }

\* what the loop reads of the prediction obtained for a bar
BtPredictions ==
    [signal : SignalValues, stop_loss : {None, Some(90)},
     target_price : {None, Some(110)}]

\* TradeRecord (dates are bar indices; pct_return, a float ratio computed
\* from pnl, is left out)
TradeRecord(entry_date, exit_date, action, entry_price, exit_price, quantity, pnl) ==
    [entry_date |-> entry_date, exit_date |-> exit_date, action |-> action,
     entry_price |-> entry_price, exit_price |-> exit_price,
     quantity |-> quantity, pnl |-> pnl]

BtIdle ==
    /\ bt_pc = "idle"
    /\ df = <<>>
    /\ bar = 0
    /\ balance = initial_balance
    /\ position_open = FALSE
    /\ position_entry_price = 0
    /\ position_quantity = 0
    /\ position_entry_date = None
    /\ trades = <<>>
    /\ equity_curve = <<>>
    /\ final_balance = None
    /\ saved = FALSE
    /\ exported = FALSE
    /\ bt_result = None
    /\ bt_raised = None
    /\ bt_log = <<>>

\* an empty download is taken for a series to simulate
EmptySeriesAccepted(series) == FALSE

\* if df.empty: raise ValueError
EmptySeriesRaises(series) == series = <<>>

\* run_backtest up to the loop: the download, and the error for no data
Download(series) ==
    /\ bt_pc = "idle"
    /\ df' = series
    /\ IF EmptySeriesRaises(series)
       THEN /\ bt_pc' = "error"
            /\ bt_raised' = Some("ValueError: No historical data")
       ELSE /\ bt_pc' = "loop"
            /\ UNCHANGED bt_raised
    /\ UNCHANGED <<bar, balance, position_open, position_entry_price,
                   position_quantity, position_entry_date, trades, equity_curve,
                   final_balance, saved, exported, bt_result, bt_log,
                   agentVars, guardVars, scoreVars, coVars, newsVars>>

\* the exit reason of an open position on a bar, "" when it stays open
ExitReason(prediction, price) ==
    IF Truthy(prediction.stop_loss) /\ price <= prediction.stop_loss[1]
    THEN "stop_loss"
    ELSE IF Truthy(prediction.target_price) /\ price >= prediction.target_price[1]
    THEN "target"
    ELSE IF prediction.signal = "SELL" THEN "sell_signal"
    ELSE ""

\* risk per share times 100: price - stop_loss, or price * 0.02
RiskPerShare100(prediction, price) ==
    IF Truthy(prediction.stop_loss) /\ prediction.stop_loss[1] < price
    THEN 100 * (price - prediction.stop_loss[1])
    ELSE 2 * price

\* math.floor(max_risk / risk_per_share) with max_risk = balance * 0.02
\* (\div rounds towards minus infinity, as math.floor does)
Quantity(bal, risk100) == (2 * bal) \div risk100

\* the pnl of a closed position is not credited
BalanceAfterCloseNoCredit(bal, pnl) == bal

\* balance += pnl
BalanceAfterClose(bal, pnl) == bal + pnl

\* a BUY opens a position also while one is open
CanEnterWhileOpen(is_open, prediction) == prediction.signal = "BUY"

\* the condition of the entry branch: not position_open and signal is BUY
CanEnter(is_open, prediction) == ~is_open /\ prediction.signal = "BUY"

\* the symbol of the run
BtSymbol == "AAPL"

\* seconds that pass between two analyze_asset calls of the loop
BarDelays == {0, cache_ttl}

\* what the pipeline of analyze_asset computes on a cache miss: no market
\* data (None), or a prediction
BtComputed == {None} \cup { Some(p) : p \in BtPredictions }

\* what the loop reads of the prediction of the outer except branch
BtSafePrediction == [signal |-> "HOLD", stop_loss |-> None, target_price |-> None]

\* agent.analyze_asset(symbol, '1d') at time t on the agent of the run: the
\* cached prediction while the entry is valid, else the computed one, which
\* is cached unless the market data was missing (the call returns a
\* prediction for every exception, so the except branch of the loop is
\* not taken)
BtAnalyze(c, t, computed) ==
    LET cache_key == _get_cache_key(BtSymbol, "1d")
    IN  IF _is_cache_valid(c, cache_key, t)
        THEN [prediction |-> c[cache_key].prediction, hit |-> TRUE, cache |-> c]
        ELSE IF computed = None
        THEN [prediction |-> BtSafePrediction, hit |-> FALSE, cache |-> c]
        ELSE [prediction |-> computed[1], hit |-> FALSE,
              cache |-> CachePut(c, cache_key, computed[1], t)]

\* one iteration of the loop over df.iterrows(): the agent is asked for a
\* prediction, dt seconds after the previous bar's call (the clock stops
\* at MaxNow), and the prediction is applied to the bar
Bar(dt, computed) ==
    /\ bt_pc = "loop"
    /\ bar < Len(df)
    /\ now + dt <= MaxNow
    /\ LET date == bar + 1
           price == df[date]
           analysis == BtAnalyze(cache, now + dt, computed)
           prediction == analysis.prediction
           exit_reason == IF position_open THEN ExitReason(prediction, price) ELSE ""
           closing == exit_reason # ""
           pnl == (price - position_entry_price) * position_quantity
           balance1 == IF closing THEN BalanceAfterClose(balance, pnl) ELSE balance
           trades1 == IF closing
                      THEN Append(trades,
                               TradeRecord(position_entry_date[1], Some(date), "SELL",
                                           position_entry_price, Some(price),
                                           position_quantity, Some(pnl)))
                      ELSE trades
           open1 == position_open /\ ~closing
           entering == CanEnter(open1, prediction)
           risk100 == RiskPerShare100(prediction, price)
           qty == IF risk100 > 0 THEN Quantity(balance1, risk100) ELSE 0
           skipped == entering /\ (risk100 <= 0 \/ qty <= 0)
           opening == entering /\ ~skipped
           open2 == open1 \/ opening
           qty2 == IF opening THEN qty ELSE IF closing THEN 0 ELSE position_quantity
       IN  /\ bar' = date
           /\ balance' = balance1
           /\ position_open' = open2
           /\ position_entry_price' =
                 IF opening THEN price ELSE IF closing THEN 0 ELSE position_entry_price
           /\ position_quantity' = qty2
           /\ position_entry_date' =
                 IF opening THEN Some(date) ELSE IF closing THEN None ELSE position_entry_date
           /\ trades' = IF opening
                        THEN Append(trades1,
                                 TradeRecord(date, None, "BUY", price, None, qty, None))
                        ELSE trades1
           /\ equity_curve' =
                 IF skipped THEN equity_curve
                 ELSE Append(equity_curve,
                             <<date, balance1 + (IF open2 THEN qty2 * price ELSE 0)>>)
           /\ now' = now + dt
           /\ cache' = analysis.cache
           /\ bt_log' = Append(bt_log, [date |-> date, hit |-> analysis.hit,
                                        prediction |-> prediction,
                                        was_open |-> position_open,
                                        reason |-> exit_reason,
                                        closed |-> closing,
                                        opened |-> opening, skipped |-> skipped,
                                        before |-> balance, after |-> balance1])
    /\ UNCHANGED <<bt_pc, df, final_balance, saved, exported, bt_result, bt_raised,
                   openai_api_key, calls, pc, symbol, timeframe, market_data,
                   news_data, gpt_outcome, candidate, guard_flags, result, trace,
                   prev, clear_log, guardVars, scoreVars, coVars, newsVars>>

\* how saving and exporting may end
PersistOutcomes == {"ok", "save_raises", "export_raises"}

\* _save_backtest_result, then _export_trades_csv, called one after the
\* other outside any try: an exception of the first leaves nothing
\* committed and skips the second, an exception of either leaves
\* run_backtest without a return value
Persist(outcome, balance_end, ledger, curve) ==
    [saved |-> outcome # "save_raises",
     exported |-> outcome = "ok",
     result |-> IF outcome = "ok"
                THEN Some([final_balance |-> balance_end,
                           trades |-> Len(ledger) \div 2,
                           equity_curve |-> curve])
                ELSE None,
     raised |-> IF outcome = "ok" THEN None ELSE Some(outcome)]

\* after the loop: a position still open is closed at the last price, the
\* metrics are computed, the result is saved and exported, and the run
\* returns
Finalize(outcome) ==
    /\ bt_pc = "loop"
    /\ bar = Len(df)
    /\ LET last_price == df[Len(df)]
           pnl == (last_price - position_entry_price) * position_quantity
       IN  IF position_open
           THEN /\ trades' = Append(trades,
                                 TradeRecord(position_entry_date[1], Some(Len(df)), "SELL",
                                             position_entry_price, Some(last_price),
                                             position_quantity, Some(pnl)))
                /\ balance' = BalanceAfterClose(balance, pnl)
                /\ final_balance' = Some(BalanceAfterClose(balance, pnl))
           ELSE /\ UNCHANGED <<trades, balance>>
                /\ final_balance' = Some(balance)
    /\ LET persisted == Persist(outcome, final_balance'[1], trades', equity_curve)
       IN  /\ saved' = persisted.saved
           /\ exported' = persisted.exported
           /\ bt_result' = persisted.result
           /\ bt_raised' = persisted.raised
           /\ bt_pc' = IF persisted.raised = None THEN "done" ELSE "error"
    /\ UNCHANGED <<df, bar, position_open, position_entry_price, position_quantity,
                   position_entry_date, equity_curve, bt_log, agentVars, guardVars, scoreVars, coVars, newsVars>>

\* ------------------------------------------------------------------------
\* enforce called directly
\* ------------------------------------------------------------------------

\* the predictions handed to enforce
GuardCandidates ==
    { TradingPrediction(sym, sig, conf, rt, <<Note("candidate")>>, entry, stop,
                        Some(110), 0, "1d", "MEDIUM") :
        sym \in Symbols, sig \in SignalValues, conf \in {NaN, 0, 45, 98, 150},
        rt \in {"list", "str"}, entry \in {None, Some(0), Some(100)},
        stop \in {None, Some(0), Some(40), Some(95)} }

\* the market_data handed to enforce: none, a snapshot of the symbol, or a
\* snapshot that names the banned symbol in lower case
GuardMarketData(sym) ==
    {None} \cup { Some(MkMarketData(s, price, IndNone, 10)) :
                    s \in {sym, "xxx"}, price \in {0, 100} }

\* the guardrails: the default one and one with a banned list
Guards == { DefaultGuard, AgentGuardrail(DefaultMaxConfidence, {"xxx"}) }

GuardIdle ==
    /\ g_pc = "idle"
    /\ g_guard = DefaultGuard
    /\ g_prediction = None
    /\ g_market_data = None
    /\ g_result = None
    /\ g_again = None

GuardInit ==
    /\ g_pc = "input"
    /\ g_guard \in Guards
    /\ g_prediction \in { Some(p) : p \in GuardCandidates }
    /\ g_market_data \in GuardMarketData(g_prediction[1].symbol)
    /\ g_result = None
    /\ g_again = None

\* guard.enforce(prediction, market_data)
Enforce ==
    /\ g_pc = "input"
    /\ g_pc' = "enforced"
    /\ g_result' = Some(enforce(g_guard, g_prediction[1], g_market_data))
    /\ UNCHANGED <<g_guard, g_prediction, g_market_data, g_again, agentVars, btVars, scoreVars, coVars, newsVars>>

\* guard.enforce(prediction, market_data) once more, on the prediction the
\* first call returned
EnforceAgain ==
    /\ g_pc = "enforced"
    /\ ~g_result[1].raised
    /\ g_pc' = "enforced_again"
    /\ g_again' = Some(enforce(g_guard, g_result[1].prediction, g_market_data))
    /\ UNCHANGED <<g_guard, g_prediction, g_market_data, g_result, agentVars, btVars, scoreVars, coVars, newsVars>>

\* ------------------------------------------------------------------------
\* _generate_fallback_prediction called directly
\* ------------------------------------------------------------------------

\* technical_indicators: the dict of the indicators that could be computed
\* (an Optional argument that is None leaves its key out)
Indicators(rsi, ema_12, ema_26, macd, macd_signal, atr) ==
    LET given == [k \in {"RSI", "EMA_12", "EMA_26", "MACD", "MACD_Signal", "ATR"} |->
                    CASE k = "RSI" -> rsi [] k = "EMA_12" -> ema_12
                      [] k = "EMA_26" -> ema_26 [] k = "MACD" -> macd
                      [] k = "MACD_Signal" -> macd_signal [] k = "ATR" -> atr]
    IN  [k \in { n \in DOMAIN given : given[n] # None } |-> given[k][1]]

\* the market data handed to the scorer: RSI on both sides of 30, 50 and
\* 70, the EMAs and the MACD lines in both orders, each indicator missing
\* or zero, the ATR missing, zero or 5, volume_ratio 0.4, 1.0 and 1.8
ScorerMarketData ==
    { MkMarketData("AAPL", 100,
                   Indicators(rsi, ema_12, Some(100), macd, macd_signal, atr), vr) :
        rsi \in {None, Some(0), Some(25), Some(30), Some(45), Some(50), Some(70), Some(75)},
        ema_12 \in {None, Some(95), Some(100), Some(105)},
        macd \in {None, Some(-2), Some(0), Some(1), Some(2)},
        macd_signal \in {None, Some(1)},
        atr \in {None, Some(0), Some(5)},
        vr \in {4, 10, 18} }

\* the news data handed to the scorer: sentiment scores on both sides of
\* -0.2 and 0.2
ScorerNewsData ==
    { MkNewsData(-4, "NEGATIVE"), MkNewsData(-2, "NEUTRAL"), MkNewsData(0, "NEUTRAL"),
      MkNewsData(2, "NEUTRAL"), MkNewsData(4, "POSITIVE") }

ScoreIdle ==
    /\ f_pc = "idle"
    /\ f_market_data = None
    /\ f_news_data = None
    /\ f_prediction = None

ScoreInit ==
    /\ f_pc = "input"
    /\ f_market_data \in { Some(md) : md \in ScorerMarketData }
    /\ f_news_data \in { Some(news) : news \in ScorerNewsData }
    /\ f_prediction = None

\* self._generate_fallback_prediction(market_data, news_data, timeframe)
Score ==
    /\ f_pc = "input"
    /\ f_pc' = "scored"
    /\ f_prediction' = Some(_generate_fallback_prediction(f_market_data[1],
                                                          f_news_data[1], "1d", now))
    /\ UNCHANGED <<f_market_data, f_news_data, agentVars, btVars, guardVars, coVars, newsVars>>

\* ------------------------------------------------------------------------
\* analyze_asset calls in flight at once, and their cancellation
\* ------------------------------------------------------------------------

\* the coroutines that call analyze_asset, all for one symbol and timeframe
Callers == {1, 2}
CoSymbol == "AAPL"
CoTimeframe == "1d"
CoKey == _get_cache_key(CoSymbol, CoTimeframe)

NoLocals == [market_data |-> None, news_data |-> None, prediction |-> None]

NoCoTrace == [call |-> 0, hit |-> FALSE, guarded |-> FALSE, overlapped |-> FALSE,
              cancelled |-> FALSE, raised |-> FALSE, before |-> [k \in {} |-> 0],
              writes_before |-> 0]

CoIdle ==
    /\ co_pc = [i \in Callers |-> "idle"]
    /\ co_locals = [i \in Callers |-> NoLocals]
    /\ co_result = [i \in Callers |-> None]
    /\ co_trace = [i \in Callers |-> NoCoTrace]
    /\ co_writes = <<>>

\* the calls suspended at an await
InFlight == { j \in Callers : co_pc[j] \in {"gather", "gpt"} }

\* every exception is caught, asyncio.CancelledError included
ExceptCatchesAll(exc) == TRUE

\* except Exception: asyncio.CancelledError derives from BaseException (the
\* code needs asyncio.to_thread, Python 3.9), so it is not caught
ExceptCatches(exc) == exc # "CancelledError"

\* caller i calls analyze_asset: the cache check, then the two fetches are
\* started and the call is suspended at asyncio.gather
CoAnalyze(i) ==
    /\ co_pc[i] = "idle"
    /\ calls < MaxCalls
    /\ calls' = calls + 1
    /\ co_locals' = [co_locals EXCEPT ![i] = NoLocals]
    /\ IF _is_cache_valid(cache, CoKey, now)
       THEN /\ co_result' = [co_result EXCEPT ![i] = Some(cache[CoKey].prediction)]
            /\ co_trace' = [co_trace EXCEPT ![i] =
                               [NoCoTrace EXCEPT !.call = calls + 1, !.hit = TRUE,
                                                 !.before = cache,
                                                 !.writes_before = Len(co_writes)]]
            /\ UNCHANGED co_pc
       ELSE /\ co_result' = [co_result EXCEPT ![i] = None]
            /\ co_trace' = [j \in Callers |->
                               IF j = i
                               THEN [NoCoTrace EXCEPT !.call = calls + 1,
                                                      !.overlapped = (InFlight # {}),
                                                      !.before = cache,
                                                      !.writes_before = Len(co_writes)]
                               ELSE IF j \in InFlight
                               THEN [co_trace[j] EXCEPT !.overlapped = TRUE]
                               ELSE co_trace[j]]
            /\ co_pc' = [co_pc EXCEPT ![i] = "gather"]
    /\ UNCHANGED <<openai_api_key, cache, now, pc, symbol, timeframe, market_data,
                   news_data, gpt_outcome, candidate, guard_flags, result, trace,
                   prev, clear_log, co_writes, btVars, guardVars, scoreVars, newsVars>>

\* the rest of the call of caller i, which has no await: fallback when the
\* GPT attempt left no prediction, guardrail, cache write, return
CoFinish(i, md, news, attempt, cancelled) ==
    LET prediction == IF attempt = None
                      THEN _generate_fallback_prediction(md, news, CoTimeframe, now)
                      ELSE attempt[1]
        final == GuardStep(prediction, Some(md))
    IN  /\ cache' = CachePut(cache, CoKey, final, now)
        /\ co_writes' = Append(co_writes, [call |-> co_trace[i].call,
                                           prediction |-> final, timestamp |-> now])
        /\ co_locals' = [co_locals EXCEPT ![i] =
                            [market_data |-> Some(md), news_data |-> Some(news),
                             prediction |-> Some(prediction)]]
        /\ co_result' = [co_result EXCEPT ![i] = Some(final)]
        /\ co_trace' = [co_trace EXCEPT ![i].guarded = TRUE,
                                        ![i].cancelled = cancelled]
        /\ co_pc' = [co_pc EXCEPT ![i] = "idle"]

\* asyncio.gather of caller i returns
CoGatherDone(i, md, news) ==
    /\ co_pc[i] = "gather"
    /\ IF md = None
       THEN /\ co_result' = [co_result EXCEPT ![i] = OuterExcept(CoSymbol, CoTimeframe, now)]
            /\ co_locals' = [co_locals EXCEPT ![i].news_data = Some(news)]
            /\ co_pc' = [co_pc EXCEPT ![i] = "idle"]
            /\ UNCHANGED <<cache, co_trace, co_writes>>
       ELSE IF GptConfigured(openai_api_key)
       THEN /\ co_locals' = [co_locals EXCEPT ![i].market_data = md,
                                              ![i].news_data = Some(news)]
            /\ co_pc' = [co_pc EXCEPT ![i] = "gpt"]
            /\ UNCHANGED <<cache, co_result, co_trace, co_writes>>
       ELSE CoFinish(i, md[1], news, None, FALSE)
    /\ UNCHANGED <<openai_api_key, now, calls, pc, symbol, timeframe, market_data,
                   news_data, gpt_outcome, candidate, guard_flags, result, trace,
                   prev, clear_log, btVars, guardVars, scoreVars, newsVars>>

\* the await of _call_gpt of caller i returns or raises
CoGptDone(i, out) ==
    /\ co_pc[i] = "gpt"
    /\ CoFinish(i, co_locals[i].market_data[1], co_locals[i].news_data[1],
                IF out.raised THEN None
                ELSE Some(_parse_gpt_response(out.text, CoSymbol, CoTimeframe, now)),
                FALSE)
    /\ UNCHANGED <<openai_api_key, now, calls, pc, symbol, timeframe, market_data,
                   news_data, gpt_outcome, candidate, guard_flags, result, trace,
                   prev, clear_log, btVars, guardVars, scoreVars, newsVars>>

\* the task of caller i is cancelled while its call is suspended:
\* CancelledError is raised at the await. An except clause that catches it
\* acts as for any exception (the inner one leaves prediction = None, the
\* outer one returns the safe prediction); otherwise it leaves analyze_asset
CoCancel(i) ==
    /\ co_pc[i] \in {"gather", "gpt"}
    /\ IF ~ExceptCatches("CancelledError")
       THEN /\ co_trace' = [co_trace EXCEPT ![i].cancelled = TRUE, ![i].raised = TRUE]
            /\ co_pc' = [co_pc EXCEPT ![i] = "idle"]
            /\ UNCHANGED <<cache, co_locals, co_result, co_writes>>
       ELSE IF co_pc[i] = "gpt"
       THEN CoFinish(i, co_locals[i].market_data[1], co_locals[i].news_data[1],
                     None, TRUE)
       ELSE /\ co_result' = [co_result EXCEPT ![i] = OuterExcept(CoSymbol, CoTimeframe, now)]
            /\ co_trace' = [co_trace EXCEPT ![i].cancelled = TRUE]
            /\ co_pc' = [co_pc EXCEPT ![i] = "idle"]
            /\ UNCHANGED <<cache, co_locals, co_writes>>
    /\ UNCHANGED <<openai_api_key, now, calls, pc, symbol, timeframe, market_data,
                   news_data, gpt_outcome, candidate, guard_flags, result, trace,
                   prev, clear_log, btVars, guardVars, scoreVars, newsVars>>

\* ------------------------------------------------------------------------
\* NewsAnalyzer: get_news_sentiment inside analyze_asset
\* ------------------------------------------------------------------------

\* the three headlines fetch_news makes up without an API key
MockHeadlines == <<"shows strong momentum", "Analysts upgrade", "Market volatility">>

\* what requests.get does: it raises, or answers with a status and the
\* titles of the articles
NewsResponses ==
    { [raised |-> TRUE, status |-> 0, titles |-> <<>>],
      [raised |-> FALSE, status |-> 500, titles |-> <<>>],
      [raised |-> FALSE, status |-> 200, titles |-> <<>>],
      [raised |-> FALSE, status |-> 200, titles |-> <<"h1", "h2">>] }

\* NewsAnalyzer.fetch_news: the headlines, [] on any failure
fetch_news(key, response) ==
    IF ~key THEN MockHeadlines
    ELSE IF response.raised THEN <<>>
    ELSE IF response.status = 200 THEN response.titles
    ELSE <<>>

\* how the sentiment pipeline answers: not at all (sentiment_analyzer is
\* None), by raising, or with one label and the score 0.9 for every headline
SentimentAnalyzers == {"absent", "raises", "POSITIVE", "NEGATIVE", "NEUTRAL"}

NeutralSentiment == <<0, "NEUTRAL">>

\* the exception of the pipeline leaves analyze_sentiment
SentimentExceptRaises(headlines) == None

\* the except branch of analyze_sentiment: return 0.0, "NEUTRAL"
SentimentExcept(headlines) == Some(NeutralSentiment)

\* NewsAnalyzer.analyze_sentiment: Some((score * 10, label)), None if it
\* raised
analyze_sentiment(headlines, analyzer) ==
    IF headlines = <<>> \/ analyzer = "absent" THEN Some(NeutralSentiment)
    ELSE IF analyzer = "raises" THEN SentimentExcept(headlines)
    ELSE LET avg_sentiment == IF analyzer = "POSITIVE" THEN 9
                              ELSE IF analyzer = "NEGATIVE" THEN -9 ELSE 0
         IN  Some(<<avg_sentiment,
                    IF avg_sentiment > 1 THEN "POSITIVE"
                    ELSE IF avg_sentiment < -1 THEN "NEGATIVE" ELSE "NEUTRAL">>)

\* NewsAnalyzer.get_news_sentiment: Some(NewsData), None if it raised
get_news_sentiment(key, analyzer, response) ==
    LET sentiment == analyze_sentiment(fetch_news(key, response), analyzer)
    IN  IF sentiment = None THEN None
        ELSE Some(MkNewsData(sentiment[1][1], sentiment[1][2]))

NewsIdle ==
    /\ news_api_key = FALSE
    /\ sentiment_analyzer = "absent"
    /\ news_fetch = None

\* NewsAnalyzer.__init__: the key comes from the environment, and the
\* pipeline may fail to load
NewsInit ==
    /\ news_api_key \in BOOLEAN
    /\ sentiment_analyzer \in SentimentAnalyzers
    /\ news_fetch = None

\* fetch_news of the running call gets the answer to its request
NewsRespond(response) ==
    /\ pc = "gather"
    /\ IF news_fetch = None THEN TRUE ELSE news_fetch[1].call # calls
    /\ news_fetch' = Some([call |-> calls, response |-> response])
    /\ UNCHANGED <<news_api_key, sentiment_analyzer, agentVars, btVars, guardVars,
                   scoreVars, coVars>>

\* asyncio.gather returns with the market data and the NewsData of
\* get_news_sentiment, or re-raises what get_news_sentiment raised
GatherNews(md) ==
    /\ IF news_fetch = None THEN FALSE ELSE news_fetch[1].call = calls
    /\ LET news == get_news_sentiment(news_api_key, sentiment_analyzer,
                                      news_fetch[1].response)
       IN  IF news # None THEN GatherDone(md, news[1])
           ELSE /\ pc = "gather"
                /\ market_data' = md
                /\ result' = OuterExcept(symbol, timeframe, now)
                /\ pc' = "return"
                /\ UNCHANGED <<openai_api_key, cache, now, calls, symbol, timeframe,
                               news_data, gpt_outcome, candidate, guard_flags, trace,
                               prev, clear_log, btVars, guardVars, scoreVars, coVars,
                               newsVars>>

\* ------------------------------------------------------------------------
\* Specifications
\* ------------------------------------------------------------------------

\* the decision service: analyze_asset calls on one TradingAgent
Init == AgentInit /\ BtIdle /\ GuardIdle /\ ScoreIdle /\ CoIdle /\ NewsIdle

Next ==
    \/ Tick
    \/ \E sym \in Symbols, tf \in Timeframes : Analyze(sym, tf)
    \/ \E md \in {None} \cup { Some(m) : m \in Snapshots(symbol) }, news \in NewsItems :
          GatherDone(md, news)
    \/ \E out \in GptOutcomes : GptDone(out)
    \/ Return

Spec == Init /\ [][Next]_vars

\* the same with the scheduling of the event loop: a step that can be
\* taken is eventually taken
FairSpec == Spec /\ WF_vars(Next)

\* the /predict endpoint in front of the agent: requests with and without
\* force_refresh, GPT raising or answering with a SELL without stop-loss
RefreshGptOutcomes ==
    { out \in GptOutcomes : out.raised \/ out.text.data.signal = Some("SELL") }

RefreshNext ==
    \/ Tick
    \/ \E sym \in Symbols, tf \in Timeframes, force_refresh \in BOOLEAN :
          predict_trade(sym, tf, force_refresh)
    \/ \E md \in {None} \cup { Some(m) : m \in Snapshots(symbol) }, news \in NewsItems :
          GatherDone(md, news)
    \/ \E out \in RefreshGptOutcomes : GptDone(out)
    \/ Return

RefreshSpec == Init /\ [][RefreshNext]_vars

\* the two prediction endpoints of the router in front of the agent, on
\* one key: /predict requests with and without force_refresh, and tasks
\* of /batch-predict
ResponseNext ==
    \/ Tick
    \/ \E force_refresh \in BOOLEAN : predict_trade(CoSymbol, CoTimeframe, force_refresh)
    \/ analyze_with_semaphore(CoSymbol, CoTimeframe)
    \/ \E md \in {None} \cup { Some(m) : m \in Snapshots(symbol) }, news \in NewsItems :
          GatherDone(md, news)
    \/ \E out \in RefreshGptOutcomes : GptDone(out)
    \/ Return

ResponseSpec == Init /\ [][ResponseNext]_vars

\* the agent behind the cache endpoint, without an API key: analyze_asset
\* calls, and clear_cache requests at any moment
AdminInit == openai_api_key = FALSE /\ AgentStart /\ BtIdle /\ GuardIdle /\ ScoreIdle /\ CoIdle /\ NewsIdle

AdminNext ==
    \/ Tick
    \/ \E sym \in Symbols, tf \in Timeframes : Analyze(sym, tf)
    \/ \E md \in {None} \cup { Some(m) : m \in Snapshots(symbol) }, news \in NewsItems :
          GatherDone(md, news)
    \/ Return
    \/ clear_cache

AdminSpec == AdminInit /\ [][AdminNext]_vars

\* analyze_asset calls whose symbol and timeframe strings contain the
\* underscore (neither argument is validated anywhere)
KeySymbols == {"A", "A_B"}
KeyTimeframes == {"1d", "B_1d"}

KeyNext ==
    \/ Tick
    \/ \E sym \in KeySymbols, tf \in KeyTimeframes : Analyze(sym, tf)
    \/ \E md \in {None} \cup { Some(m) : m \in Snapshots(symbol) }, news \in NewsItems :
          GatherDone(md, news)
    \/ Return

KeySpec == AdminInit /\ [][KeyNext]_vars

\* two callers of analyze_asset on one agent, each call suspended at its
\* awaits; a suspended call can be cancelled
CoNext ==
    \/ Tick
    \/ \E i \in Callers : CoAnalyze(i)
    \/ \E i \in Callers, md \in {None} \cup { Some(m) : m \in Snapshots(CoSymbol) },
          news \in NewsItems : CoGatherDone(i, md, news)
    \/ \E i \in Callers, out \in RefreshGptOutcomes : CoGptDone(i, out)
    \/ \E i \in Callers : CoCancel(i)

CoSpec == Init /\ [][CoNext]_vars

\* analyze_asset calls whose news come from get_news_sentiment, for every
\* NewsAnalyzer and every answer to the news request
NewsSpecInit == AgentInit /\ BtIdle /\ GuardIdle /\ ScoreIdle /\ CoIdle /\ NewsInit

NewsNext ==
    \/ Tick
    \/ Analyze(CoSymbol, CoTimeframe)
    \/ \E response \in NewsResponses : NewsRespond(response)
    \/ \E md \in {None} \cup { Some(m) : m \in Snapshots(symbol) } : GatherNews(md)
    \/ \E out \in RefreshGptOutcomes : GptDone(out)
    \/ Return

NewsSpec == NewsSpecInit /\ [][NewsNext]_vars

\* one run_backtest call
BtInit == openai_api_key = FALSE /\ AgentStart /\ BtIdle /\ GuardIdle /\ ScoreIdle /\ CoIdle /\ NewsIdle

BtNext ==
    \/ \E series \in BarSeries : Download(series)
    \/ \E dt \in BarDelays, computed \in BtComputed : Bar(dt, computed)
    \/ \E outcome \in PersistOutcomes : Finalize(outcome)

BtSpec == BtInit /\ [][BtNext]_vars

\* run_backtest on one or two bars, with the predictions of a GPT payload
\* whose stop_loss or target_price may also be 0 (no price of a payload is
\* validated)
BtPayloadPredictions ==
    [signal : SignalValues, stop_loss : {None, Some(0), Some(90)},
     target_price : {None, Some(0), Some(110)}]

BtPayloadNext ==
    \/ \E series \in { q \in BarSeries : Len(q) <= 2 } : Download(series)
    \/ \E dt \in BarDelays, p \in BtPayloadPredictions : Bar(dt, Some(p))
    \/ \E outcome \in PersistOutcomes : Finalize(outcome)

BtPayloadSpec == BtInit /\ [][BtPayloadNext]_vars

\* one enforce call, for every guardrail, prediction and market data
EnforceInit == openai_api_key = FALSE /\ AgentStart /\ BtIdle /\ GuardInit /\ ScoreIdle /\ CoIdle /\ NewsIdle

EnforceNext == Enforce \/ EnforceAgain

EnforceSpec == EnforceInit /\ [][EnforceNext]_vars

\* one _generate_fallback_prediction call, for every market data and news
\* data
ScorerInit == openai_api_key = FALSE /\ AgentStart /\ BtIdle /\ GuardIdle /\ ScoreInit /\ CoIdle /\ NewsIdle

ScorerNext == Score

ScorerSpec == ScorerInit /\ [][ScorerNext]_vars

\* ------------------------------------------------------------------------
\* Properties
\* ------------------------------------------------------------------------

CurrentKey == _get_cache_key(symbol, timeframe)

\* confidence is a number of [0,100] (nan is not)
InRange(c) == c # NaN /\ 0 <= c /\ c <= 100

\* a BUY or SELL carries both entry_price and stop_loss
HasEntryAndStop(p) ==
    p.signal \in {"BUY", "SELL"} => (p.entry_price # None /\ p.stop_loss # None)

\* the running call computed its prediction (no cache hit) and the
\* guardrail step has run
Guarded == pc = "return" /\ trace.guarded

\* C1: every prediction analyze_asset returns or caches after the guardrail
\* step has a confidence in [0,100], and entry_price and stop_loss when its
\* signal is BUY or SELL.
C1_PostGuardrail ==
    /\ Guarded => (InRange(result[1].confidence) /\ HasEntryAndStop(result[1]))
    /\ \A k \in DOMAIN cache :
          InRange(cache[k].prediction.confidence) /\ HasEntryAndStop(cache[k].prediction)

RECURSIVE SumPnl(_)
\* the sum of pnl over the closed records of a ledger
SumPnl(ledger) ==
    IF ledger = <<>> THEN 0
    ELSE (IF ledger[Len(ledger)].pnl = None THEN 0 ELSE ledger[Len(ledger)].pnl[1])
         + SumPnl(SubSeq(ledger, 1, Len(ledger) - 1))

\* a step changes the balance only by appending one closed record, whose
\* pnl is the change
BalanceMovesWithClose ==
    balance' # balance =>
        /\ Len(trades') >= Len(trades) + 1
        /\ trades'[Len(trades) + 1].pnl = Some(balance' - balance)
        /\ SubSeq(trades', 1, Len(trades)) = trades

\* C2: the balance is at every moment initial_balance plus the pnl of the
\* closed records, so is final_balance when the run returns, and the
\* balance changes only when a position is closed, by that trade's pnl.
C2_BalanceLaw ==
    /\ [](balance = initial_balance + SumPnl(trades))
    /\ [](bt_pc = "done" => final_balance = Some(initial_balance + SumPnl(trades)))
    /\ [][BalanceMovesWithClose]_vars

\* a finished run with a winning and a losing closed trade
C2_Witness ==
    /\ bt_pc = "done"
    /\ \E i, j \in 1..Len(trades) :
          /\ trades[i].pnl # None /\ trades[i].pnl[1] > 0
          /\ trades[j].pnl # None /\ trades[j].pnl[1] < 0
    /\ final_balance # Some(initial_balance)

IsOpenRecord(t) == t.action = "BUY" /\ t.pnl = None /\ t.exit_date = None
IsClosedRecord(t) == t.action = "SELL" /\ t.pnl # None /\ t.exit_date # None

\* C3: the position is FLAT or LONG, open and closed records alternate in
\* the ledger starting with an open one, and a record is open (not yet
\* followed by its closed record) exactly while the position is LONG, so
\* there are never two open trades.
C3_SinglePosition ==
    /\ position_open \in BOOLEAN
    /\ \A i \in 1..Len(trades) :
          IF i % 2 = 1 THEN IsOpenRecord(trades[i]) ELSE IsClosedRecord(trades[i])
    /\ (bt_pc = "loop") => (position_open <=> Len(trades) % 2 = 1)
    /\ (position_open /\ bt_pc = "loop") =>
          /\ trades[Len(trades)].entry_date = position_entry_date[1]
          /\ trades[Len(trades)].quantity = position_quantity

\* a second position is open, after the first one was closed
C3_Witness ==
    /\ bt_pc = "loop"
    /\ position_open
    /\ Len(trades) = 3

\* C4: a call for a key that starts less than cache_ttl after the previous
\* call for the same key computed and returned a prediction returns that
\* same prediction from the cache, without fetching or calling GPT.
C4_TwiceWithinTTL ==
    (/\ pc = "return"
     /\ prev # None
     /\ prev[1].key = CurrentKey
     /\ ~prev[1].trace.hit
     /\ trace.started - prev[1].ended < cache_ttl)
    => (/\ result = prev[1].result
        /\ trace.hit
        /\ trace.fetches = 0
        /\ trace.gpt_calls = 0)

\* the reasoning carries the banned_symbol flag
HasBannedFlag(p) ==
    \E i \in 1..Len(p.reasoning) :
        \E j \in 1..Len(p.reasoning[i].flags) : p.reasoning[i].flags[j] = "banned_symbol"

\* C5: analyze_asset("XXX", timeframe) returns HOLD with confidence 0 and a
\* reasoning that contains banned_symbol.
C5_BannedXXX ==
    (pc = "return" /\ symbol = "XXX") =>
        /\ result[1].signal = "HOLD"
        /\ result[1].confidence = 0
        /\ HasBannedFlag(result[1])

\* C6: the equity curve of a run that returned has one entry per bar, in
\* bar order.
C6_EquityCurvePerBar ==
    bt_pc = "done" =>
        /\ Len(equity_curve) = Len(df)
        /\ \A i \in 1..Len(equity_curve) : equity_curve[i][1] = i

\* the flag is in the flag list
HasFlag(flags, f) == \E i \in 1..Len(flags) : flags[i] = f

\* C7: enforce on a non-banned symbol, with entry_price and stop_loss
\* present and current_price > 0: a risk fraction above 0.5 caps the
\* confidence at 40 and raises excessive_risk_fraction.
C7_RiskFraction ==
    (/\ g_pc = "enforced"
     /\ Upper(GuardSymbol(g_prediction[1], g_market_data)) \notin g_guard.banned_symbols
     /\ g_prediction[1].entry_price # None
     /\ g_prediction[1].stop_loss # None
     /\ g_market_data # None
     /\ g_market_data[1].current_price > 0
     /\ 2 * Abs(g_prediction[1].entry_price[1] - g_prediction[1].stop_loss[1])
           > g_market_data[1].current_price)
    => (/\ ~PyGt(g_result[1].prediction.confidence, 40)
        /\ g_result[1].prediction.confidence # NaN
        /\ HasFlag(g_result[1].flags, "excessive_risk_fraction"))

\* the running call ended because the snapshot fetch failed
SnapshotFailed == pc = "return" /\ ~trace.hit /\ market_data = None

\* C8: after a failed snapshot fetch the call returns the safe prediction
\* (HOLD, confidence 30, no prices) and the cache holds it for the key.
C8_SnapshotFailureCached ==
    SnapshotFailed =>
        /\ result = Some(SafePrediction(symbol, timeframe, result[1].timestamp))
        /\ CurrentKey \in DOMAIN cache
        /\ cache[CurrentKey].prediction = result[1]

\* the GPT attempt of the running call failed: the call raised, or the
\* text did not parse into a prediction
OracleFailed ==
    /\ pc = "return"
    /\ gpt_outcome # None
    /\ (gpt_outcome[1].raised \/ ~ParseSucceeds(gpt_outcome[1].text))

\* C9: when the GPT attempt fails, the prediction that reaches the
\* guardrail is the one of the fallback scorer for the snapshot and the
\* sentiment.
C9_OracleFailureToFallback ==
    OracleFailed =>
        candidate = Some(_generate_fallback_prediction(market_data[1], news_data[1],
                                                       timeframe, candidate[1].timestamp))

\* result is a prediction: a signal, a confidence and the key of the call
IsPrediction(r) ==
    /\ r # None
    /\ r[1].signal \in SignalValues
    /\ r[1].symbol = symbol
    /\ r[1].timeframe = timeframe

\* C10: every analyze_asset call ends by returning a prediction: a call
\* that is awaiting its fetches or the GPT call gets to its return
\* statement, and what it returns is a prediction, never an exception.
C10_AlwaysReturnsDecision ==
    /\ [](pc = "return" => IsPrediction(result))
    /\ (pc \in {"gather", "gpt"}) ~> (pc = "return")

\* a call returns a prediction after its GPT call raised, the call before
\* it having returned one after its snapshot fetch failed
C10_Witness ==
    /\ pc = "return"
    /\ gpt_outcome # None /\ gpt_outcome[1].raised
    /\ IsPrediction(result)
    /\ prev # None
    /\ prev[1].trace.fetches = 1 /\ ~prev[1].trace.guarded
    /\ prev[1].result # None /\ prev[1].result[1].confidence = 30

\* the GPT calls the running call has to make: one when there is an API
\* key, the cache missed and the market data was fetched, none otherwise
ExpectedGptCalls ==
    IF openai_api_key /\ ~trace.hit /\ market_data # None THEN 1 ELSE 0

\* C11: one analyze_asset call makes exactly one GPT call when an API key
\* is configured, the cache misses and the market data is fetched, and
\* none otherwise; a GPT call that raised or returned a malformed text is
\* not followed by a second one in the same call.
C11_OneOracleAttempt ==
    /\ trace.gpt_calls <= 1
    /\ pc = "gpt" => trace.gpt_calls = 1
    /\ pc = "return" => trace.gpt_calls = ExpectedGptCalls
    /\ OracleFailed => trace.gpt_calls = 1

\* a call returns after its one GPT call answered with a text that does not
\* parse
C11_Witness ==
    /\ pc = "return"
    /\ openai_api_key
    /\ gpt_outcome # None /\ ~gpt_outcome[1].raised
    /\ ~ParseSucceeds(gpt_outcome[1].text)
    /\ trace.gpt_calls = 1

\* the loop of the run and the force-close after it are over
LoopOver == bt_pc \in {"done", "error"} /\ final_balance # None

\* the closed record carries the entry of the open record
ClosesRecord(closed, open) ==
    /\ IsClosedRecord(closed)
    /\ closed.entry_date = open.entry_date
    /\ closed.entry_price = open.entry_price
    /\ closed.quantity = open.quantity

\* C12: a position still open after the last bar is closed at the last
\* bar's close price by a closed record that carries its entry_date,
\* entry_price and quantity; so when the run ends the position is flat and
\* every open record of the ledger has exactly one matching closed record.
C12_ForceClose ==
    LoopOver =>
        /\ ~position_open
        /\ \A i \in 1..Len(trades) :
              IsOpenRecord(trades[i]) =>
                  /\ Cardinality({ j \in 1..Len(trades) :
                                      ClosesRecord(trades[j], trades[i]) }) = 1
                  /\ i < Len(trades)
                  /\ ClosesRecord(trades[i + 1], trades[i])
        /\ \A j \in 1..Len(trades) :
              IsClosedRecord(trades[j]) =>
                  trades[j].exit_price = Some(df[trades[j].exit_date[1]])

\* C13: in a run every bar is decided by a prediction computed for that
\* bar: no bar is decided by a cache entry written while an earlier bar of
\* the run was processed.
C13_NoCachedDecision ==
    \A i \in 1..Len(bt_log) : ~bt_log[i].hit

\* C14: the loop takes the bars in ascending order, one prediction per
\* bar, and changes the position at most once per bar: no bar both closes
\* the position and opens one again.
C14_OneMutationPerBar ==
    /\ bar = Len(bt_log)
    /\ \A i \in 1..Len(bt_log) :
          /\ bt_log[i].date = i
          /\ ~(bt_log[i].closed /\ bt_log[i].opened)

\* saving or exporting the result of the run failed
PersistenceFailed == LoopOver /\ ~(saved /\ exported)

\* C15: a failure to save the backtest row and its trades, or to export
\* the ledger, is swallowed: run_backtest still returns its result, with the
\* metrics and the equity curve, and raises nothing.
C15_PersistenceSwallowed ==
    PersistenceFailed =>
        /\ bt_pc = "done"
        /\ bt_raised = None
        /\ bt_result # None
        /\ bt_result[1].final_balance = final_balance[1]
        /\ bt_result[1].equity_curve = equity_curve

\* C16: run_backtest on an empty series raises an error to its caller
\* before any prediction is asked for, and leaves nothing behind: no trade
\* record, no equity entry, nothing saved or exported.
C16_EmptySeriesError ==
    (bt_pc # "idle" /\ df = <<>>) =>
        /\ bt_pc = "error"
        /\ bt_raised # None
        /\ bt_result = None
        /\ bt_log = <<>>
        /\ DOMAIN cache = {}
        /\ trades = <<>>
        /\ equity_curve = <<>>
        /\ ~saved
        /\ ~exported

\* the download returned no bar and the run has raised
C16_Witness ==
    /\ bt_pc = "error"
    /\ df = <<>>
    /\ bt_raised = Some("ValueError: No historical data")
    /\ bar = 0

\* the flag is named in a reasoning line
FlagInReasoning(p, f) ==
    \E i \in 1..Len(p.reasoning) : HasFlag(p.reasoning[i].flags, f)

\* C17: when the guardrail raises flags during an analyze_asset call, every
\* raised flag is named in the reasoning of the prediction that is cached
\* and returned.
C17_FlagsInReasoning ==
    Guarded =>
        \A i \in 1..Len(guard_flags) :
            /\ FlagInReasoning(result[1], guard_flags[i])
            /\ FlagInReasoning(cache[CurrentKey].prediction, guard_flags[i])

\* C18: enforce is idempotent: applied to the prediction it returned, with
\* the same market data, it returns the same prediction (signal,
\* confidence, entry, stop, target and reasoning).
C18_EnforceIdempotent ==
    g_pc = "enforced_again" =>
        /\ ~g_again[1].raised
        /\ g_again[1].prediction = g_result[1].prediction

\* the score the scorer reached for its inputs
ScoreOfInputs == FallbackScore(f_market_data[1], f_news_data[1])

\* the example: RSI 25, EMA_12 above EMA_26, MACD above its signal line,
\* volume_ratio 1.8, sentiment score 0.4
ScorerExample ==
    /\ f_pc = "scored"
    /\ f_market_data[1].technical_indicators =
           Indicators(Some(25), Some(105), Some(100), Some(2), Some(1), Some(5))
    /\ f_market_data[1].volume_ratio = 18
    /\ f_news_data[1].sentiment_score = 4

\* C19: the fallback scorer returns BUY for a score of 3 or more, SELL for
\* a score of -3 or less and HOLD otherwise, with confidence
\* min(70 + 5*|score|, 95) for BUY and SELL and 50 for HOLD; for the example
\* the score is 5 and the result BUY with confidence 95.
C19_ScoreMapping ==
    f_pc = "scored" =>
        LET score == ScoreOfInputs
            p == f_prediction[1]
            bounded == IF 70 + 5 * Abs(score) < 95 THEN 70 + 5 * Abs(score) ELSE 95
        IN  /\ score >= 3 => p.signal = "BUY"
            /\ score <= -3 => p.signal = "SELL"
            /\ (-3 < score /\ score < 3) => p.signal = "HOLD"
            /\ p.signal \in {"BUY", "SELL"} => p.confidence = bounded
            /\ p.signal = "HOLD" => p.confidence = 50
            /\ ScorerExample => (score = 5 /\ p.signal = "BUY" /\ p.confidence = 95)

\* the scorer has returned BUY with confidence 95 for the example
C19_Witness ==
    /\ ScorerExample
    /\ f_prediction[1].signal = "BUY"
    /\ f_prediction[1].confidence = 95

\* the entries of the keys other than cache_key are the same after the step
OtherKeysUnchanged(cache_key) ==
    /\ DOMAIN cache' \ {cache_key} = DOMAIN cache \ {cache_key}
    /\ \A k \in DOMAIN cache \ {cache_key} : cache'[k] = cache[k]

\* a step that starts a call with force_refresh
ForcedStart == pc = "idle" /\ pc' # "idle" /\ trace'.forced

\* C20: a predict_trade call with force_refresh is never answered from the
\* cache: the entry of its key is removed, the call fetches and computes
\* again, and the entries of all other keys stay as they were, when the
\* entry is removed and for the rest of the call.
C20_ForceRefresh ==
    /\ []((pc # "idle" /\ trace.forced) => (~trace.hit /\ trace.fetches = 1))
    /\ [][ForcedStart =>
             /\ _get_cache_key(symbol', timeframe') \notin DOMAIN cache'
             /\ OtherKeysUnchanged(_get_cache_key(symbol', timeframe'))]_vars
    /\ [][(pc # "idle" /\ trace.forced) => OtherKeysUnchanged(CurrentKey)]_vars

\* a call with force_refresh returns a computed prediction while the
\* entry the previous call wrote for the same key was still valid
C20_Witness ==
    /\ pc = "return"
    /\ trace.forced
    /\ trace.guarded
    /\ prev # None
    /\ prev[1].key = CurrentKey
    /\ prev[1].trace.wrote
    /\ trace.started - prev[1].ended < cache_ttl

\* a step of clear_cache
ClearStep == Len(clear_log') = Len(clear_log) + 1

C22_KeyedByPair ==
    (pc = "return" /\ trace.hit) =>
        /\ result[1].symbol = symbol
        /\ result[1].timeframe = timeframe

\* the last cache write
LastWrite == co_writes[Len(co_writes)]

\* caller i holds the prediction its last call returned, and the call
\* computed it (no cache hit, no failed fetch)
Computed(i) == co_result[i] # None /\ co_trace[i].guarded

CancelStep(i) == co_pc[i] \in {"gather", "gpt"} /\ co_trace'[i].cancelled

\* C24: cancelling an analyze_asset call while it is suspended, at
\* asyncio.gather or at the GPT call, writes nothing to the cache: the step
\* leaves the cache as it is, which is the cache the call started on when no
\* other call wrote meanwhile, and no cache write ever comes from the
\* cancelled call.
C24_CancelLeavesCache ==
    /\ [][\A i \in Callers :
             CancelStep(i) =>
                /\ cache' = cache
                /\ co_writes' = co_writes
                /\ (Len(co_writes) = co_trace[i].writes_before =>
                       cache' = co_trace[i].before)]_vars
    /\ [](\A i \in Callers :
             co_trace[i].cancelled =>
                /\ co_result[i] = None
                /\ \A n \in 1..Len(co_writes) : co_writes[n].call # co_trace[i].call)

\* a call that started on an expired entry was cancelled while awaiting the
\* GPT call; the expired entry is still the one in the cache
C24_Witness ==
    \E i \in Callers :
        /\ co_trace[i].cancelled /\ co_trace[i].raised
        /\ co_pc[i] = "idle"
        /\ co_locals[i].market_data # None
        /\ CoKey \in DOMAIN cache
        /\ ~_is_cache_valid(cache, CoKey, now)
        /\ cache = co_trace[i].before

\* the news request of the running call is answered, and its sentiment
\* analysis failed: request error or bad status, no headlines, no
\* sentiment model, or the model raising
SentimentFailure ==
    /\ news_fetch # None
    /\ news_fetch[1].call = calls
    /\ \/ news_api_key /\ fetch_news(news_api_key, news_fetch[1].response) = <<>>
       \/ sentiment_analyzer \in {"absent", "raises"}

\* the running call got its market data and is past asyncio.gather
SnapshotFetched == pc \in {"gpt", "return"} /\ market_data # None

\* C25: when the sentiment analysis of a call fails while its market data
\* are fetched, the call goes on with the neutral NewsData (score 0, label
\* NEUTRAL) through GPT or fallback and the guardrail; it does not end with
\* the HOLD/30 prediction of the failure branch.
C25_SentimentFailureNonTerminal ==
    (SentimentFailure /\ SnapshotFetched) =>
        /\ news_data = Some(MkNewsData(0, "NEUTRAL"))
        /\ pc = "return" =>
              /\ trace.guarded
              /\ result = Some(GuardStep(candidate[1], market_data))
              /\ ~(result[1].signal = "HOLD" /\ result[1].confidence = 30)

\* with an API key for the news and a sentiment model that raises on real
\* headlines, a call went on to the fallback and returned a BUY
C25_Witness ==
    /\ SentimentFailure /\ SnapshotFetched
    /\ pc = "return"
    /\ news_api_key
    /\ sentiment_analyzer = "raises"
    /\ fetch_news(news_api_key, news_fetch[1].response) # <<>>
    /\ trace.fallback
    /\ result[1].signal = "BUY"

\* the inputs of the scorer
ScorerIndicators == f_market_data[1].technical_indicators
Present(k) == k \in DOMAIN ScorerIndicators

\* the sum of the rule contributions, each rule applied to every value
\* that is there
RuleSum ==
    (IF Present("RSI")
     THEN (IF ScorerIndicators["RSI"] < 30 THEN 2
           ELSE IF ScorerIndicators["RSI"] > 70 THEN -2
           ELSE IF ScorerIndicators["RSI"] < 50 THEN 1 ELSE -1)
     ELSE 0)
    + (IF Present("EMA_12") /\ Present("EMA_26")
       THEN (IF ScorerIndicators["EMA_12"] > ScorerIndicators["EMA_26"] THEN 1 ELSE -1)
       ELSE 0)
    + (IF Present("MACD") /\ Present("MACD_Signal")
       THEN (IF ScorerIndicators["MACD"] > ScorerIndicators["MACD_Signal"] THEN 1 ELSE -1)
       ELSE 0)
    + (IF f_news_data[1].sentiment_score > 2 THEN 1
       ELSE IF f_news_data[1].sentiment_score < -2 THEN -1 ELSE 0)

\* C26: the score of the fallback scorer is the sum of the contributions of
\* the RSI, EMA, MACD and sentiment rules, where a rule counts for every
\* indicator value that is there, zero included, and a missing indicator
\* counts 0; the signal returned is the one of that sum.
C26_ScoreIsRuleSum ==
    f_pc = "scored" =>
        /\ ScoreOfInputs = RuleSum
        /\ f_prediction[1].signal =
              (IF RuleSum >= 3 THEN "BUY" ELSE IF RuleSum <= -3 THEN "SELL" ELSE "HOLD")

\* C27: a fallback prediction has entry_price = current_price; a BUY has
\* stop_loss = price - 2*ATR and target_price = price + 3*ATR, a SELL has
\* stop_loss = price + 2*ATR and target_price = price - 3*ATR, a HOLD has
\* neither; ATR is the ATR indicator when there is one and 2% of the price
\* otherwise. So a fallback BUY or SELL has entry and stop, and with ATR > 0
\* stop < entry < target for a BUY and target < entry < stop for a SELL.
C27_EntryStopTarget ==
    f_pc = "scored" =>
        LET p == f_prediction[1]
            price == f_market_data[1].current_price
            atr == IF Present("ATR") THEN ScorerIndicators["ATR"]
                   ELSE (price * 2) \div 100
        IN  /\ p.entry_price = Some(price)
            /\ p.signal = "BUY" =>
                  /\ p.stop_loss = Some(price - 2 * atr)
                  /\ p.target_price = Some(price + 3 * atr)
                  /\ atr > 0 => (p.stop_loss[1] < p.entry_price[1]
                                 /\ p.entry_price[1] < p.target_price[1])
            /\ p.signal = "SELL" =>
                  /\ p.stop_loss = Some(price + 2 * atr)
                  /\ p.target_price = Some(price - 3 * atr)
                  /\ atr > 0 => (p.target_price[1] < p.entry_price[1]
                                 /\ p.entry_price[1] < p.stop_loss[1])
            /\ p.signal = "HOLD" => (p.stop_loss = None /\ p.target_price = None)
            /\ p.signal \in {"BUY", "SELL"} => (p.entry_price # None /\ p.stop_loss # None)

\* the scorer returned a SELL for market data without ATR at the price 100:
\* entry 100, stop 104, target 94
C27_Witness ==
    /\ f_pc = "scored"
    /\ ~Present("ATR")
    /\ f_prediction[1].signal = "SELL"
    /\ f_prediction[1].entry_price = Some(100)
    /\ f_prediction[1].stop_loss = Some(104)
    /\ f_prediction[1].target_price = Some(94)

\* the decoded object has no "signal", "confidence", "reasoning" or
\* "risk_level" key (for the three prices a missing key and null are not
\* told apart here)
LacksRequired(data) ==
    \/ data.signal = None
    \/ data.confidence = None
    \/ data.reasoning = None
    \/ data.risk_level = None

\* the running call parsed a GPT response that json.loads accepted
ParsedDecoded ==
    /\ pc = "return"
    /\ gpt_outcome # None
    /\ ~gpt_outcome[1].raised
    /\ gpt_outcome[1].text.find # -1
    /\ gpt_outcome[1].text.decodable

\* C28: _parse_gpt_response answers a decoded object that lacks one of the
\* required fields with its parse-failure prediction (HOLD, 50, "Unable to
\* parse GPT response", risk HIGH), not with a prediction whose missing
\* fields are defaults; and it raises on no text.
C28_MissingFieldIsParseError ==
    (ParsedDecoded /\ LacksRequired(gpt_outcome[1].text.data)) =>
        candidate = Some(ParseErrorPrediction(symbol, timeframe, candidate[1].timestamp))

\* the symbol the banned-symbol rule is about: the one of the market data
\* when market data are given, else the one of the prediction
EnforcedSymbol ==
    IF g_market_data # None THEN g_market_data[1].symbol ELSE g_prediction[1].symbol

\* enforce was called for a symbol of the banned set of its guardrail
BannedCall == g_pc = "enforced" /\ Upper(EnforcedSymbol) \in g_guard.banned_symbols

\* C29: enforce of a guardrail with a banned set, for a symbol of the set
\* (compared without regard to case), returns HOLD with confidence 0 and
\* the flags [banned_symbol], and no later rule has acted: the prices are
\* the candidate's and the reasoning has the banned note only in front.
C29_BannedShortCircuit ==
    BannedCall =>
        /\ ~g_result[1].raised
        /\ g_result[1].prediction.signal = "HOLD"
        /\ g_result[1].prediction.confidence = 0
        /\ g_result[1].flags = <<"banned_symbol">>
        /\ g_result[1].prediction.entry_price = g_prediction[1].entry_price
        /\ g_result[1].prediction.stop_loss = g_prediction[1].stop_loss
        /\ Len(g_result[1].prediction.reasoning) = Len(g_prediction[1].reasoning) + 1

\* enforce was called for a symbol that is not banned
AllowedCall == g_pc = "enforced" /\ Upper(EnforcedSymbol) \notin g_guard.banned_symbols

\* C30: for a symbol that is not banned, enforce returns a BUY or SELL
\* candidate without entry_price or without stop_loss as HOLD with
\* confidence min(confidence, 50) and the flag missing_entry_or_stop; a BUY
\* or SELL candidate with both keeps its signal, and a HOLD stays HOLD.
C30_MissingEntryOrStop ==
    AllowedCall =>
        LET p == g_prediction[1]
            r == g_result[1]
            missing == p.entry_price = None \/ p.stop_loss = None
        IN  /\ (p.signal \in {"BUY", "SELL"} /\ missing) =>
                  /\ ~r.raised
                  /\ r.prediction.signal = "HOLD"
                  /\ r.prediction.confidence = PyMin(p.confidence, 50)
                  /\ HasFlag(r.flags, "missing_entry_or_stop")
            /\ (p.signal \in {"BUY", "SELL"} /\ ~missing) =>
                  r.prediction.signal = p.signal
            /\ p.signal = "HOLD" => r.prediction.signal = "HOLD"

\* the exit conditions on a bar at the close price, in their order: the
\* stop-loss is hit, else the target is hit, else the signal is SELL
ExitCondition(prediction, price) ==
    IF prediction.stop_loss # None /\ price <= prediction.stop_loss[1] THEN "stop_loss"
    ELSE IF prediction.target_price # None /\ price >= prediction.target_price[1]
    THEN "target"
    ELSE IF prediction.signal = "SELL" THEN "sell_signal"
    ELSE ""

\* the closed records of the ledger with the exit date d
ClosedAt(d) == { i \in 1..Len(trades) : trades[i].exit_date = Some(d) }

\* C31: on a bar that finds a position open, the position is closed if and
\* only if close <= stop_loss, or else close >= target_price, or else the
\* signal is SELL, with that reason; the exit appends one closed record with
\* pnl = (close - entry_price) * quantity and adds the pnl to the balance,
\* and leaves the position flat unless the bar opens a new one; without an
\* exit the balance and the closed records are as before.
C31_ExitRule ==
    bt_pc = "loop" =>
        \A n \in 1..Len(bt_log) :
            LET e == bt_log[n]
                price == df[e.date]
            IN  e.was_open =>
                  /\ e.reason = ExitCondition(e.prediction, price)
                  /\ e.closed = (ExitCondition(e.prediction, price) # "")
                  /\ e.closed =>
                        /\ Cardinality(ClosedAt(e.date)) = 1
                        /\ \A i \in ClosedAt(e.date) :
                              /\ trades[i].pnl =
                                    Some((price - trades[i].entry_price) * trades[i].quantity)
                              /\ e.after = e.before + trades[i].pnl[1]
                        /\ (n = Len(bt_log) /\ ~e.opened) =>
                              (~position_open /\ position_quantity = 0)
                  /\ ~e.closed => (ClosedAt(e.date) = {} /\ e.after = e.before)

\* risk per share times 100 by the sizing rule: close - stop_loss when a
\* stop below the close is given, else 2% of the close
SizingRisk100(prediction, price) ==
    IF prediction.stop_loss # None /\ prediction.stop_loss[1] < price
    THEN 100 * (price - prediction.stop_loss[1])
    ELSE 2 * price

\* the open records of the ledger with the entry date d
OpenedAt(d) == { i \in 1..Len(trades) : trades[i].action = "BUY" /\ trades[i].entry_date = d }

\* C32: on a bar with no position (after the exit step) and a BUY, the risk
\* per share is close - stop_loss for a stop below the close, else 2% of the
\* close, and the quantity is floor(0.02 * balance / risk per share); a
\* position is opened if and only if the risk is positive and the quantity
\* at least 1. An opened position has that quantity, with quantity * risk
\* <= 0.02 * balance, one open record without pnl, and the balance as it was.
C32_EntrySizing ==
    bt_pc = "loop" =>
        \A n \in 1..Len(bt_log) :
            LET e == bt_log[n]
                price == df[e.date]
                risk100 == SizingRisk100(e.prediction, price)
                quantity == (2 * e.after) \div risk100
                flat == ~e.was_open \/ e.closed
            IN  /\ (flat /\ e.prediction.signal = "BUY") =>
                      (e.opened = (risk100 > 0 /\ quantity >= 1))
                /\ e.opened =>
                      /\ flat /\ e.prediction.signal = "BUY"
                      /\ Cardinality(OpenedAt(e.date)) = 1
                      /\ \A i \in OpenedAt(e.date) :
                            /\ trades[i].quantity = quantity
                            /\ trades[i].quantity >= 1
                            /\ trades[i].quantity * risk100 <= 2 * e.after
                            /\ trades[i].pnl = None
                            /\ trades[i].entry_price = price
                      /\ n = Len(bt_log) => balance = e.after

Conservative(before, after) ==
    /\ after.symbol = before.symbol
    /\ after.entry_price = before.entry_price
    /\ after.stop_loss = before.stop_loss
    /\ after.target_price = before.target_price
    /\ after.risk_level = before.risk_level
    /\ after.timeframe = before.timeframe
    /\ after.timestamp = before.timestamp
    /\ after.signal \in {before.signal, "HOLD"}
    /\ after.confidence <= before.confidence
    /\ after.reasoning_type = before.reasoning_type
    /\ Len(after.reasoning) >= Len(before.reasoning)
    /\ SubSeq(after.reasoning, Len(after.reasoning) - Len(before.reasoning) + 1,
              Len(after.reasoning)) = before.reasoning

C35_CurveEndsAtFinalBalance ==
    (bt_pc = "done" /\ equity_curve # <<>>) =>
        equity_curve[Len(equity_curve)][2] = bt_result[1].final_balance

\* the balance when the position entered on bar d was opened
BalanceAtEntry(d) ==
    LET n == CHOOSE k \in 1..Len(bt_log) : bt_log[k].date = d /\ bt_log[k].opened
    IN  bt_log[n].after

\* C36: no closed record has a loss above 2% of the balance at the moment
\* its position was opened, and the balance is never negative.
C36_LossBounded ==
    /\ \A i \in 1..Len(trades) :
          trades[i].pnl # None =>
             100 * (0 - trades[i].pnl[1]) <= 2 * BalanceAtEntry(trades[i].entry_date)
    /\ balance >= 0

\* the logged bar on which the position held at the start of logged bar n
\* was opened: the last earlier bar that opened one
OpenerOf(n) ==
    CHOOSE k \in 1..(n - 1) :
        /\ bt_log[k].opened
        /\ \A j \in (k + 1)..(n - 1) : ~bt_log[j].opened

\* the close price meets the stop or the target carried by prediction p
HitsStopOrTarget(p, price) ==
    \/ p.stop_loss # None /\ price <= p.stop_loss[1]
    \/ p.target_price # None /\ price >= p.target_price[1]

\* C37: a position is closed by stop or target exactly on the bars whose
\* close meets the stop or the target of the Decision that opened it,
\* whatever the Decisions of later bars carry.
C37_ExitUsesOpeningDecision ==
    \A n \in 1..Len(bt_log) :
        bt_log[n].was_open =>
            LET opening == bt_log[OpenerOf(n)].prediction
                price == df[bt_log[n].date]
            IN  /\ HitsStopOrTarget(opening, price) => bt_log[n].closed
                /\ bt_log[n].reason \in {"stop_loss", "take_profit"}
                      => HitsStopOrTarget(opening, price)

\* the response of a router endpoint is about to be returned
Responding == pc = "return" /\ trace.endpoint \in {"predict_trade", "analyze_with_semaphore"}

\* C38: in the responses of predict and batch-predict the cached field is
\* true iff the Decision of the response was served from the cache, and
\* false iff this request computed it.
C38_CachedIffHit == Responding => (trace.cached <=> trace.hit)

====
